---- MODULE Spec2Model ----
(***************************************************************************)
(* State-machine model of the TuzlaGuide backend actor                     *)
(* (src/Tuzla Guide on ICP/src/backend/main.mo).                           *)
(*                                                                         *)
(* Conventions                                                             *)
(*  - A Trie<K,V> is a function whose DOMAIN is the set of stored keys.    *)
(*  - An optional value ?V is a sequence of length 0 (null) or 1 (?v).     *)
(*  - A Text that the code builds by concatenation (payment ids, payment   *)
(*    instruction payloads, currencies) is a sequence of one-character     *)
(*    strings; a Text the code only stores or compares is a string.        *)
(*  - A Float is an exact fraction [num, den] in lowest terms.  The        *)
(*    integers involved are tiny, so two such quotients are equal as       *)
(*    IEEE doubles exactly when they are equal as fractions.               *)
(*  - Time.now() is the variable now: constant during one message, and     *)
(*    non-decreasing from one message to the next (Tick).                  *)
(*  - result is the observable outcome of the last message: the operation, *)
(*    its arguments and the value it returned.                             *)
(*  - caller is the principal that sent the last message (msg.caller).     *)
(*  - modal is the state of the frontend's PaymentModal component, with    *)
(*    the monitorPayment timers that have not fired yet and the handler    *)
(*    that ran last.                                                       *)
(***************************************************************************)
EXTENDS Integers, Sequences, FiniteSets, TLC

VARIABLES attractions, reviews, users, payments,
          nextAttractionId, nextReviewId,
          now, calls, result, caller, modal

vars == <<attractions, reviews, users, payments,
          nextAttractionId, nextReviewId, now, calls, result,
          caller, modal>>

(* everything but the modal: the backend and the last message *)
backend == <<attractions, reviews, users, payments,
             nextAttractionId, nextReviewId, now, calls, result, caller>>

stores == <<attractions, reviews, users, payments>>

counters == <<nextAttractionId, nextReviewId>>

----------------------------------------------------------------------------
(* Bounds of the model *)

MaxCalls == 2

MaxDeepCalls == 3

MaxSearchCalls == 2

MaxCallerCalls == 3

MaxHomeCalls == 1

MaxModalCalls == 2

(* the seconds of the payment countdown (300 in the component) *)
CountdownStart == 2

MaxTicks == 1

StartTime == 9999

(* Inputs the clients send *)

AttractionIdInputs == {0, 2, 5}

DeepReadIds == {2}

RatingInputs == 0 .. 6

DeepRatings == {2, 5, 6}

SearchRatings == {3}

CommentInputs == {"Great place"}

PhotoInputs == {<<>>}

AmountInputs == {300, 500}

EUR == <<"E", "U", "R">>

CurrencyInputs == {EUR}

MethodInputs == {"ICP", "ckBTC"}
DeepMethods == {"ICP"}

(* queries, by their characters *)
QueryInputs ==
  { <<>>, <<"l", "a", "k", "e">>, <<"L", "a", "k", "e">>,
    <<"L", "A", "K", "E">>, <<"S", "A", "L", "T">>,
    <<"S", "h", "o", "p", "p", "i", "n", "g">> }

(* optional category and language filters: <<>> is null *)
CategoryInputs == {<<>>, <<"museum">>, <<"Museum">>}

LanguageFilterInputs == {<<>>, <<"hr">>}

(* what the user types in the search box of the home page *)
SearchTexts ==
  { <<>>, <<" ">>, <<"l", "a", "k", "e">>, <<"S", "a", "l", "t">>,
    <<"T", "U", "Z", "L", "A">> }

(* the choices of the filter panel: <<>> is a filter never touched;         *)
(* "all" is the first option of the category select                         *)
PanelCategories ==
  {<<>>, <<"all">>, <<"museum">>, <<"restaurant">>, <<"natural">>,
   <<"historical">>}

PanelLanguages == {<<>>, <<"en">>, <<"hr">>, <<"sr">>}

PanelFilters ==
  [category : PanelCategories, language : PanelLanguages]

USD == <<"U", "S", "D">>

(* the attractions a payment is started for, and the symbol of the          *)
(* preselected payment method                                               *)
PayableAttractions == {2}

SelectedSymbol == "USDT"

StatusInputs == {"completed", "failed"}

(* any text is accepted as a status: the three of the frontend and another *)
DeepStatuses == {"completed", "failed", "pending", "refunded"}

UnknownPaymentId == <<"t", "x", "_", "?">>

(* the remote principals that send messages *)
Clients == {"alice"}

CallerInputs == {"alice", "bob"}

UsernameInputs == {"ana", "ben"}

EmailInputs == {"ana@tuzla.ba"}

LanguageInputs == {"en"}

----------------------------------------------------------------------------
(* Library functions of the Motoko base library, as the code uses them *)

TrieEmpty == <<>>

TrieGet(t, k) == IF k \in DOMAIN t THEN <<t[k]>> ELSE <<>>

TriePut(t, k, v) == [x \in (DOMAIN t) \cup {k} |-> IF x = k THEN v ELSE t[x]]

Max(S) == CHOOSE x \in S : \A y \in S : y <= x

RECURSIVE TrieIter(_)
(* the keys of a trie of naturals in iteration order *)
TrieIter(K) == IF K = {} THEN <<>>
               ELSE LET m == Max(K) IN Append(TrieIter(K \ {m}), m)

Digit(d) == CASE d = 0 -> "0" [] d = 1 -> "1" [] d = 2 -> "2" [] d = 3 -> "3"
              [] d = 4 -> "4" [] d = 5 -> "5" [] d = 6 -> "6" [] d = 7 -> "7"
              [] d = 8 -> "8" [] d = 9 -> "9"

RECURSIVE NatToText(_)
NatToText(n) == IF n < 10 THEN <<Digit(n)>>
                ELSE NatToText(n \div 10) \o <<Digit(n % 10)>>

TextConcat(a, b) == a \o b

IntAbs(i) == IF i < 0 THEN 0 - i ELSE i

RECURSIVE Gcd(_, _)
Gcd(a, b) == IF b = 0 THEN a ELSE Gcd(b, a % b)

FloatDivTrunc(a, b) == [num |-> a \div b, den |-> 1]

(* Float.fromInt(a) / Float.fromInt(b), b > 0 *)
FloatDiv(a, b) == LET g == Gcd(a, b) IN [num |-> a \div g, den |-> b \div g]

(* a Float literal, written in lowest terms *)
Float(num, den) == [num |-> num, den |-> den]

SelfPrincipal == "TuzlaGuide"

(* the principal that installs and upgrades the canister *)
Controller == "controller"

Ok(v) == [tag |-> "ok", val |-> v]

Err(msg) == [tag |-> "err", val |-> msg]

(* at: the value of Time.now() while the message was handled *)
Outcome(op, args, ret) == [op |-> op, args |-> args, ret |-> ret, at |-> now]

----------------------------------------------------------------------------
(* Seed catalog.  Names are written without diacritics. *)

Location(lat, lon) == [latitude |-> lat, longitude |-> lon]

sampleAttractions ==
  << [id |-> 0, name |-> "Panonsko Jezero",
      description |-> "The famous salt lake in the heart of Tuzla, perfect for swimming and relaxation.",
      location |-> Location(Float(445387, 10000), Float(93383, 5000)), category |-> "natural",
      imageUrl |-> "/images/panonsko-jezero.jpg",
      audioUrl |-> "/audio/panonsko-jezero-guide.mp3",
      rating |-> Float(24, 5), price |-> 500,
      languages |-> <<"en", "bs", "de">>,
      tags |-> <<"lake", "swimming", "salt-water", "family">>,
      createdAt |-> now, updatedAt |-> now],
     [id |-> 1, name |-> "Gradska Trznica Tuzla",
      description |-> "Historic city market offering local produce and traditional crafts.",
      location |-> Location(Float(445417, 10000), Float(186739, 10000)), category |-> "historical",
      imageUrl |-> "/images/trznica.jpg",
      audioUrl |-> "/audio/trznica-guide.mp3",
      rating |-> Float(9, 2), price |-> 0,
      languages |-> <<"en", "bs", "de", "hr">>,
      tags |-> <<"market", "shopping", "local", "historical">>,
      createdAt |-> now, updatedAt |-> now],
     [id |-> 2, name |-> "Muzej Soli Tuzla",
      description |-> "Salt Museum showcasing Tuzla's rich salt mining history.",
      location |-> Location(Float(2227, 50), Float(747, 40)), category |-> "museum",
      imageUrl |-> "/images/muzej-soli.jpg",
      audioUrl |-> "/audio/muzej-soli-guide.mp3",
      rating |-> Float(47, 10), price |-> 300,
      languages |-> <<"en", "bs", "de", "hr", "sr">>,
      tags |-> <<"museum", "history", "salt", "educational">>,
      createdAt |-> now, updatedAt |-> now],
     [id |-> 3, name |-> "Kapija Gradusa",
      description |-> "Historic gate and cultural landmark in the old town.",
      location |-> Location(Float(22271, 500), Float(2334, 125)), category |-> "historical",
      imageUrl |-> "/images/kapija-gradusa.jpg",
      audioUrl |-> "/audio/kapija-gradusa-guide.mp3",
      rating |-> Float(43, 10), price |-> 0,
      languages |-> <<"en", "bs", "de">>,
      tags |-> <<"historical", "gate", "architecture", "photo-spot">>,
      createdAt |-> now, updatedAt |-> now],
     [id |-> 4, name |-> "Restoran Dvoriste",
      description |-> "Traditional Bosnian restaurant with authentic local cuisine.",
      location |-> Location(Float(89079, 2000), Float(37349, 2000)), category |-> "restaurant",
      imageUrl |-> "/images/dvoriste.jpg",
      audioUrl |-> "/audio/dvoriste-guide.mp3",
      rating |-> Float(23, 5), price |-> 2500,
      languages |-> <<"en", "bs", "de", "hr">>,
      tags |-> <<"restaurant", "traditional", "bosnian", "dining">>,
      createdAt |-> now, updatedAt |-> now] >>

RECURSIVE seedLoopNoCount(_, _, _)
seedLoopNoCount(i, attrs, nid) ==
  IF i > Len(sampleAttractions)
    THEN [attractions |-> attrs, nextAttractionId |-> nid]
    ELSE LET attraction == sampleAttractions[i]
             put        == TriePut(attrs, attraction.id, attraction)
         IN  seedLoopNoCount(i + 1, put, nid)

RECURSIVE seedLoop(_, _, _)
(* the for loop of initSampleData, from the i-th sample on *)
seedLoop(i, attrs, nid) ==
  IF i > Len(sampleAttractions)
    THEN [attractions |-> attrs, nextAttractionId |-> nid]
    ELSE LET attraction == sampleAttractions[i]
             put        == TriePut(attrs, attraction.id, attraction)
         IN  seedLoop(i + 1, put, nid + 1)

(* initSampleData run on a store attrs and a counter nid *)
initSampleData(attrs, nid) == seedLoop(1, attrs, nid)

(* the seed rating of attraction id a *)
SeedRating(a) == sampleAttractions[a + 1].rating

----------------------------------------------------------------------------
(* Helper functions of the actor *)

RECURSIVE reviewScan(_, _, _, _)
(* the loop of getReviewsInternal / getReviews over the keys ks from the i-th on *)
reviewScan(revs, ks, i, attractionId) ==
  IF i > Len(ks) THEN <<>>
  ELSE LET rest == reviewScan(revs, ks, i + 1, attractionId)
       IN  IF revs[ks[i]].attractionId = attractionId
             THEN rest \o <<revs[ks[i]]>>
             ELSE rest

RECURSIVE reviewScanAll(_, _, _, _)
reviewScanAll(revs, ks, i, attractionId) ==
  IF i > Len(ks) THEN <<>>
  ELSE reviewScanAll(revs, ks, i + 1, attractionId) \o <<revs[ks[i]]>>

getReviewsInternalNoFilter(revs, attractionId) ==
  reviewScanAll(revs, TrieIter(DOMAIN revs), 1, attractionId)

(* the reviews of the store revs whose attractionId is attractionId, as a list *)
getReviewsInternal(revs, attractionId) ==
  reviewScan(revs, TrieIter(DOMAIN revs), 1, attractionId)

RECURSIVE foldlRating(_, _, _)
(* List.foldl(allReviews, acc, func(acc, r) { acc + r.rating }) from the i-th on *)
foldlRating(l, i, acc) ==
  IF i > Len(l) THEN acc ELSE foldlRating(l, i + 1, acc + l[i].rating)

generatePaymentId ==
  LET timestamp == now
      random    == IntAbs(now % 10000)
  IN  TextConcat(<<"t", "x", "_">>,
                 TextConcat(NatToText(timestamp), NatToText(random)))

NowPaymentsPrefix ==
  <<"n", "o", "w", "p", "a", "y", "m", "e", "n", "t", "s", ":">>

generateQRCodeDataStamped(attractionName, amount, currency) ==
  LET description == <<"Tuzla Guide - ", attractionName>>
      amountText  == NatToText(amount)
  IN  TextConcat(NowPaymentsPrefix,
                 TextConcat(amountText,
                   TextConcat(<<"-">>, TextConcat(currency, NatToText(now)))))

generateQRCodeDataWithName(attractionName, amount, currency) ==
  LET description == <<"Tuzla Guide - ", attractionName>>
      amountText  == NatToText(amount)
  IN  TextConcat(NowPaymentsPrefix,
                 TextConcat(amountText,
                   TextConcat(<<"-">>, TextConcat(currency, description))))

generateQRCodeData(attractionName, amount, currency) ==
  LET description == <<"Tuzla Guide - ", attractionName>>
      amountText  == NatToText(amount)
  IN  TextConcat(NowPaymentsPrefix,
                 TextConcat(amountText, TextConcat(<<"-">>, currency)))

----------------------------------------------------------------------------
(* Lifecycle *)

(* the actor's field initialisers followed by the init block *)
(* the state of the payment modal when the page mounts it (useState) *)
modalInit ==
  [isOpen |-> FALSE, paymentTransaction |-> <<>>, isProcessing |-> FALSE,
   paymentStatus |-> "pending", countdown |-> CountdownStart,
   timers |-> <<>>, event |-> "mount"]

Init ==
  /\ now = StartTime
  /\ LET seeded == initSampleData(TrieEmpty, 0)
     IN  /\ attractions = seeded.attractions
         /\ nextAttractionId = seeded.nextAttractionId
  /\ reviews = TrieEmpty
  /\ users = TrieEmpty
  /\ payments = TrieEmpty
  /\ nextReviewId = 0
  /\ calls = 0
  /\ result = Outcome("init", <<>>, <<>>)
  /\ caller = Controller
  /\ modal = modalInit

(* the platform's clock moves on between two messages *)
Tick ==
  /\ now < StartTime + MaxTicks
  /\ now' = now + 1
  /\ UNCHANGED <<attractions, reviews, users, payments,
                 nextAttractionId, nextReviewId, calls, result, caller,
                 modal>>

(* every message the actor handles is counted, and its outcome recorded *)
Message(op, args, ret) ==
  /\ calls' = calls + 1
  /\ result' = Outcome(op, args, ret)
  /\ UNCHANGED now

----------------------------------------------------------------------------
(* Text. A stored name, description or tag is a string; Chars gives its     *)
(* characters, one element per character ("z-caron" and "s-caron" stand for *)
(* the two letters with a caron in the seed names, which are written        *)
(* without it in the strings). A query is given by its characters.          *)

Chars ==
  "Panonsko Jezero" :>
    <<"P", "a", "n", "o", "n", "s", "k", "o", " ", "J", "e", "z", "e",
      "r", "o">> @@
  "The famous salt lake in the heart of Tuzla, perfect for swimming and relaxation." :>
    <<"T", "h", "e", " ", "f", "a", "m", "o", "u", "s", " ", "s", "a",
      "l", "t", " ", "l", "a", "k", "e", " ", "i", "n", " ", "t", "h", "e",
      " ", "h", "e", "a", "r", "t", " ", "o", "f", " ", "T", "u", "z", "l",
      "a", ",", " ", "p", "e", "r", "f", "e", "c", "t", " ", "f", "o", "r",
      " ", "s", "w", "i", "m", "m", "i", "n", "g", " ", "a", "n", "d", " ",
      "r", "e", "l", "a", "x", "a", "t", "i", "o", "n", ".">> @@
  "Gradska Trznica Tuzla" :>
    <<"G", "r", "a", "d", "s", "k", "a", " ", "T", "r", "z-caron", "n",
      "i", "c", "a", " ", "T", "u", "z", "l", "a">> @@
  "Historic city market offering local produce and traditional crafts." :>
    <<"H", "i", "s", "t", "o", "r", "i", "c", " ", "c", "i", "t", "y",
      " ", "m", "a", "r", "k", "e", "t", " ", "o", "f", "f", "e", "r", "i",
      "n", "g", " ", "l", "o", "c", "a", "l", " ", "p", "r", "o", "d", "u",
      "c", "e", " ", "a", "n", "d", " ", "t", "r", "a", "d", "i", "t", "i",
      "o", "n", "a", "l", " ", "c", "r", "a", "f", "t", "s", ".">> @@
  "Muzej Soli Tuzla" :>
    <<"M", "u", "z", "e", "j", " ", "S", "o", "l", "i", " ", "T", "u",
      "z", "l", "a">> @@
  "Salt Museum showcasing Tuzla's rich salt mining history." :>
    <<"S", "a", "l", "t", " ", "M", "u", "s", "e", "u", "m", " ", "s",
      "h", "o", "w", "c", "a", "s", "i", "n", "g", " ", "T", "u", "z", "l",
      "a", "'", "s", " ", "r", "i", "c", "h", " ", "s", "a", "l", "t", " ",
      "m", "i", "n", "i", "n", "g", " ", "h", "i", "s", "t", "o", "r", "y",
      ".">> @@
  "Kapija Gradusa" :>
    <<"K", "a", "p", "i", "j", "a", " ", "G", "r", "a", "d", "u",
      "s-caron", "a">> @@
  "Historic gate and cultural landmark in the old town." :>
    <<"H", "i", "s", "t", "o", "r", "i", "c", " ", "g", "a", "t", "e",
      " ", "a", "n", "d", " ", "c", "u", "l", "t", "u", "r", "a", "l", " ",
      "l", "a", "n", "d", "m", "a", "r", "k", " ", "i", "n", " ", "t", "h",
      "e", " ", "o", "l", "d", " ", "t", "o", "w", "n", ".">> @@
  "Restoran Dvoriste" :>
    <<"R", "e", "s", "t", "o", "r", "a", "n", " ", "D", "v", "o", "r",
      "i", "s-caron", "t", "e">> @@
  "Traditional Bosnian restaurant with authentic local cuisine." :>
    <<"T", "r", "a", "d", "i", "t", "i", "o", "n", "a", "l", " ", "B",
      "o", "s", "n", "i", "a", "n", " ", "r", "e", "s", "t", "a", "u", "r",
      "a", "n", "t", " ", "w", "i", "t", "h", " ", "a", "u", "t", "h", "e",
      "n", "t", "i", "c", " ", "l", "o", "c", "a", "l", " ", "c", "u", "i",
      "s", "i", "n", "e", ".">> @@
  "lake" :>
    <<"l", "a", "k", "e">> @@
  "swimming" :>
    <<"s", "w", "i", "m", "m", "i", "n", "g">> @@
  "salt-water" :>
    <<"s", "a", "l", "t", "-", "w", "a", "t", "e", "r">> @@
  "family" :>
    <<"f", "a", "m", "i", "l", "y">> @@
  "market" :>
    <<"m", "a", "r", "k", "e", "t">> @@
  "shopping" :>
    <<"s", "h", "o", "p", "p", "i", "n", "g">> @@
  "local" :>
    <<"l", "o", "c", "a", "l">> @@
  "historical" :>
    <<"h", "i", "s", "t", "o", "r", "i", "c", "a", "l">> @@
  "museum" :>
    <<"m", "u", "s", "e", "u", "m">> @@
  "history" :>
    <<"h", "i", "s", "t", "o", "r", "y">> @@
  "salt" :>
    <<"s", "a", "l", "t">> @@
  "educational" :>
    <<"e", "d", "u", "c", "a", "t", "i", "o", "n", "a", "l">> @@
  "gate" :>
    <<"g", "a", "t", "e">> @@
  "architecture" :>
    <<"a", "r", "c", "h", "i", "t", "e", "c", "t", "u", "r", "e">> @@
  "photo-spot" :>
    <<"p", "h", "o", "t", "o", "-", "s", "p", "o", "t">> @@
  "restaurant" :>
    <<"r", "e", "s", "t", "a", "u", "r", "a", "n", "t">> @@
  "traditional" :>
    <<"t", "r", "a", "d", "i", "t", "i", "o", "n", "a", "l">> @@
  "bosnian" :>
    <<"b", "o", "s", "n", "i", "a", "n">> @@
  "dining" :>
    <<"d", "i", "n", "i", "n", "g">>

(* the lower-case letter of each upper-case letter of the texts and queries *)
UpperToLower ==
  "A" :> "a" @@ "B" :> "b" @@ "C" :> "c" @@ "D" :> "d" @@ "E" :> "e" @@
  "F" :> "f" @@ "G" :> "g" @@ "H" :> "h" @@ "I" :> "i" @@ "J" :> "j" @@
  "K" :> "k" @@ "L" :> "l" @@ "M" :> "m" @@ "N" :> "n" @@ "O" :> "o" @@
  "P" :> "p" @@ "Q" :> "q" @@ "R" :> "r" @@ "S" :> "s" @@ "T" :> "t" @@
  "U" :> "u" @@ "V" :> "v" @@ "W" :> "w" @@ "X" :> "x" @@ "Y" :> "y" @@
  "Z" :> "z"

CharToLower(c) == IF c \in DOMAIN UpperToLower THEN UpperToLower[c] ELSE c

(* Text.toLowerCase *)
TextToLowerCase(t) == [i \in 1 .. Len(t) |-> CharToLower(t[i])]

(* Text.toLowerCase of each stored text, tabulated *)
LowerChars == [s \in DOMAIN Chars |-> TextToLowerCase(Chars[s])]

(* Text.contains(t, #text p): p occurs in t at some offset; the empty       *)
(* pattern occurs at offset 0 of every text                                 *)
TextContains(t, p) ==
  \E i \in 0 .. (Len(t) - Len(p)) : \A j \in 1 .. Len(p) : t[i + j] = p[j]

----------------------------------------------------------------------------
(* Queries *)

RECURSIVE attractionScan(_, _)
attractionScan(ks, i) ==
  IF i > Len(ks) THEN <<>>
  ELSE attractionScan(ks, i + 1) \o <<attractions[ks[i]]>>

getAttractions ==
  /\ Message("getAttractions", <<>>,
             attractionScan(TrieIter(DOMAIN attractions), 1))
  /\ UNCHANGED <<stores, counters>>

getAttractionTouch(id) ==
  /\ Message("getAttraction", <<id>>, TrieGet(attractions, id))
  /\ attractions' = IF TrieGet(attractions, id) = <<>> THEN attractions
                    ELSE TriePut(attractions, id,
                           [attractions[id] EXCEPT !.updatedAt = now])
  /\ UNCHANGED <<reviews, users, payments, counters>>

getAttractionOrFirst(id) ==
  /\ Message("getAttraction", <<id>>,
             IF TrieGet(attractions, id) = <<>>
               THEN TrieGet(attractions, 0)
               ELSE TrieGet(attractions, id))
  /\ UNCHANGED <<stores, counters>>

getAttraction(id) ==
  /\ Message("getAttraction", <<id>>, TrieGet(attractions, id))
  /\ UNCHANGED <<stores, counters>>

(* the text condition of searchAttractions: the lower-cased query occurs in *)
(* the lower-cased name, description or one of the tags                     *)
textMatchesNoTags(attraction, lowerQuery) ==
  \/ TextContains(LowerChars[attraction.name], lowerQuery)
  \/ TextContains(LowerChars[attraction.description], lowerQuery)

textMatches(attraction, lowerQuery) ==
  \/ TextContains(LowerChars[attraction.name], lowerQuery)
  \/ TextContains(LowerChars[attraction.description], lowerQuery)
  \/ \E k \in 1 .. Len(attraction.tags) :
       TextContains(LowerChars[attraction.tags[k]], lowerQuery)

(* the body of the for loop of searchAttractions: matches starts true and   *)
(* each failed criterion clears it                                          *)
matches(attraction, lowerQuery, category, language) ==
  /\ textMatches(attraction, lowerQuery)
  /\ category # <<>> => attraction.category = category[1]
  /\ language # <<>> =>
       \E k \in 1 .. Len(attraction.languages) :
          attraction.languages[k] = language[1]

RECURSIVE searchLoop(_, _, _, _, _)
(* results after the entries ks[i], ks[i+1], ... were visited; List.push    *)
(* puts a match in front of the earlier ones                                *)
searchLoop(ks, i, lowerQuery, category, language) ==
  IF i > Len(ks) THEN <<>>
  ELSE LET attraction == attractions[ks[i]]
           rest       == searchLoop(ks, i + 1, lowerQuery, category, language)
       IN  IF matches(attraction, lowerQuery, category, language)
             THEN rest \o <<attraction>>
             ELSE rest

(* the array searchAttractions returns *)
searchResultsRawQuery(query, category, language) ==
  LET lowerQuery == query
  IN  searchLoop(TrieIter(DOMAIN attractions), 1, lowerQuery, category, language)

searchResults(query, category, language) ==
  LET lowerQuery == TextToLowerCase(query)
  IN  searchLoop(TrieIter(DOMAIN attractions), 1, lowerQuery, category, language)

searchAttractions(query, category, language) ==
  /\ Message("searchAttractions", <<query, category, language>>,
             searchResults(query, category, language))
  /\ UNCHANGED <<stores, counters>>

getReviews(attractionId) ==
  /\ Message("getReviews", <<attractionId>>,
             reviewScan(reviews, TrieIter(DOMAIN reviews), 1, attractionId))
  /\ UNCHANGED <<stores, counters>>

getUserProfile ==
  LET userId == SelfPrincipal
  IN  /\ Message("getUserProfile", <<>>, TrieGet(users, userId))
      /\ UNCHANGED <<stores, counters>>

----------------------------------------------------------------------------
(* Updates *)

addReviewNoLowerBound(attractionId, rating, comment, photos) ==
  LET userId == SelfPrincipal
      args   == <<attractionId, rating, comment, photos>>
  IN
  IF rating > 5 THEN
    /\ Message("addReview", args, Err("Rating must be between 1 and 5"))
    /\ UNCHANGED <<stores, counters>>
  ELSE IF TrieGet(attractions, attractionId) = <<>> THEN
    /\ Message("addReview", args, Err("Attraction not found"))
    /\ UNCHANGED <<stores, counters>>
  ELSE
    LET attraction  == TrieGet(attractions, attractionId)[1]
        reviewId    == nextReviewId
        review      == [id |-> reviewId, attractionId |-> attractionId,
                        userId |-> userId, rating |-> rating,
                        comment |-> comment, photos |-> photos,
                        createdAt |-> now]
        newReviews  == TriePut(reviews, reviewId, review)
        allReviews  == getReviewsInternal(newReviews, attractionId)
        totalRating == foldlRating(allReviews, 1, 0)
        newRating   == FloatDiv(totalRating, Len(allReviews))
        updatedAttraction == [attraction EXCEPT !.rating = newRating,
                                                !.updatedAt = now]
    IN  /\ nextReviewId' = nextReviewId + 1
        /\ reviews' = newReviews
        /\ attractions' = TriePut(attractions, attractionId, updatedAttraction)
        /\ Message("addReview", args, Ok(reviewId))
        /\ UNCHANGED <<users, payments, nextAttractionId>>

addReviewCounterFirst(attractionId, rating, comment, photos) ==
  LET userId == SelfPrincipal
      args   == <<attractionId, rating, comment, photos>>
  IN
  IF rating < 1 \/ rating > 5 THEN
    /\ Message("addReview", args, Err("Rating must be between 1 and 5"))
    /\ UNCHANGED <<stores, counters>>
  ELSE IF TrieGet(attractions, attractionId) = <<>> THEN
    /\ nextReviewId' = nextReviewId + 1
    /\ Message("addReview", args, Err("Attraction not found"))
    /\ UNCHANGED <<stores, nextAttractionId>>
  ELSE
    LET attraction  == TrieGet(attractions, attractionId)[1]
        reviewId    == nextReviewId
        review      == [id |-> reviewId, attractionId |-> attractionId,
                        userId |-> userId, rating |-> rating,
                        comment |-> comment, photos |-> photos,
                        createdAt |-> now]
        newReviews  == TriePut(reviews, reviewId, review)
        allReviews  == getReviewsInternal(newReviews, attractionId)
        totalRating == foldlRating(allReviews, 1, 0)
        newRating   == FloatDiv(totalRating, Len(allReviews))
        updatedAttraction == [attraction EXCEPT !.rating = newRating,
                                                !.updatedAt = now]
    IN  /\ nextReviewId' = nextReviewId + 1
        /\ reviews' = newReviews
        /\ attractions' = TriePut(attractions, attractionId, updatedAttraction)
        /\ Message("addReview", args, Ok(reviewId))
        /\ UNCHANGED <<users, payments, nextAttractionId>>

addReviewNoIncrement(attractionId, rating, comment, photos) ==
  LET userId == SelfPrincipal
      args   == <<attractionId, rating, comment, photos>>
  IN
  IF rating < 1 \/ rating > 5 THEN
    /\ Message("addReview", args, Err("Rating must be between 1 and 5"))
    /\ UNCHANGED <<stores, counters>>
  ELSE IF TrieGet(attractions, attractionId) = <<>> THEN
    /\ Message("addReview", args, Err("Attraction not found"))
    /\ UNCHANGED <<stores, counters>>
  ELSE
    LET attraction  == TrieGet(attractions, attractionId)[1]
        reviewId    == nextReviewId
        review      == [id |-> reviewId, attractionId |-> attractionId,
                        userId |-> userId, rating |-> rating,
                        comment |-> comment, photos |-> photos,
                        createdAt |-> now]
        newReviews  == TriePut(reviews, reviewId, review)
        allReviews  == getReviewsInternal(newReviews, attractionId)
        totalRating == foldlRating(allReviews, 1, 0)
        newRating   == FloatDiv(totalRating, Len(allReviews))
        updatedAttraction == [attraction EXCEPT !.rating = newRating,
                                                !.updatedAt = now]
    IN  /\ reviews' = newReviews
        /\ attractions' = TriePut(attractions, attractionId, updatedAttraction)
        /\ Message("addReview", args, Ok(reviewId))
        /\ UNCHANGED <<users, payments, counters>>

addReviewIdAfterIncrement(attractionId, rating, comment, photos) ==
  LET userId == SelfPrincipal
      args   == <<attractionId, rating, comment, photos>>
  IN
  IF rating < 1 \/ rating > 5 THEN
    /\ Message("addReview", args, Err("Rating must be between 1 and 5"))
    /\ UNCHANGED <<stores, counters>>
  ELSE IF TrieGet(attractions, attractionId) = <<>> THEN
    /\ Message("addReview", args, Err("Attraction not found"))
    /\ UNCHANGED <<stores, counters>>
  ELSE
    LET attraction  == TrieGet(attractions, attractionId)[1]
        reviewId    == nextReviewId + 1
        review      == [id |-> reviewId, attractionId |-> attractionId,
                        userId |-> userId, rating |-> rating,
                        comment |-> comment, photos |-> photos,
                        createdAt |-> now]
        newReviews  == TriePut(reviews, reviewId, review)
        allReviews  == getReviewsInternal(newReviews, attractionId)
        totalRating == foldlRating(allReviews, 1, 0)
        newRating   == FloatDiv(totalRating, Len(allReviews))
        updatedAttraction == [attraction EXCEPT !.rating = newRating,
                                                !.updatedAt = now]
    IN  /\ nextReviewId' = nextReviewId + 1
        /\ reviews' = newReviews
        /\ attractions' = TriePut(attractions, attractionId, updatedAttraction)
        /\ Message("addReview", args, Ok(reviewId))
        /\ UNCHANGED <<users, payments, nextAttractionId>>

addReviewStampsCreatedAt(attractionId, rating, comment, photos) ==
  LET userId == SelfPrincipal
      args   == <<attractionId, rating, comment, photos>>
  IN
  IF rating < 1 \/ rating > 5 THEN
    /\ Message("addReview", args, Err("Rating must be between 1 and 5"))
    /\ UNCHANGED <<stores, counters>>
  ELSE IF TrieGet(attractions, attractionId) = <<>> THEN
    /\ Message("addReview", args, Err("Attraction not found"))
    /\ UNCHANGED <<stores, counters>>
  ELSE
    LET attraction  == TrieGet(attractions, attractionId)[1]
        reviewId    == nextReviewId
        review      == [id |-> reviewId, attractionId |-> attractionId,
                        userId |-> userId, rating |-> rating,
                        comment |-> comment, photos |-> photos,
                        createdAt |-> now]
        newReviews  == TriePut(reviews, reviewId, review)
        allReviews  == getReviewsInternal(newReviews, attractionId)
        totalRating == foldlRating(allReviews, 1, 0)
        newRating   == FloatDiv(totalRating, Len(allReviews))
        updatedAttraction == [attraction EXCEPT !.rating = newRating,
                                                !.updatedAt = now,
                                                !.createdAt = now]
    IN  /\ nextReviewId' = nextReviewId + 1
        /\ reviews' = newReviews
        /\ attractions' = TriePut(attractions, attractionId, updatedAttraction)
        /\ Message("addReview", args, Ok(reviewId))
        /\ UNCHANGED <<users, payments, nextAttractionId>>

addReviewAttractionFirst(attractionId, rating, comment, photos) ==
  LET userId == SelfPrincipal
      args   == <<attractionId, rating, comment, photos>>
  IN
  IF TrieGet(attractions, attractionId) = <<>> THEN
    /\ Message("addReview", args, Err("Attraction not found"))
    /\ UNCHANGED <<stores, counters>>
  ELSE IF rating < 1 \/ rating > 5 THEN
    /\ Message("addReview", args, Err("Rating must be between 1 and 5"))
    /\ UNCHANGED <<stores, counters>>
  ELSE
    LET attraction  == TrieGet(attractions, attractionId)[1]
        reviewId    == nextReviewId
        review      == [id |-> reviewId, attractionId |-> attractionId,
                        userId |-> userId, rating |-> rating,
                        comment |-> comment, photos |-> photos,
                        createdAt |-> now]
        newReviews  == TriePut(reviews, reviewId, review)
        allReviews  == getReviewsInternal(newReviews, attractionId)
        totalRating == foldlRating(allReviews, 1, 0)
        newRating   == FloatDiv(totalRating, Len(allReviews))
        updatedAttraction == [attraction EXCEPT !.rating = newRating,
                                                !.updatedAt = now]
    IN  /\ nextReviewId' = nextReviewId + 1
        /\ reviews' = newReviews
        /\ attractions' = TriePut(attractions, attractionId, updatedAttraction)
        /\ Message("addReview", args, Ok(reviewId))
        /\ UNCHANGED <<users, payments, nextAttractionId>>

addReview(attractionId, rating, comment, photos) ==
  LET userId == SelfPrincipal
      args   == <<attractionId, rating, comment, photos>>
  IN
  IF rating < 1 \/ rating > 5 THEN
    /\ Message("addReview", args, Err("Rating must be between 1 and 5"))
    /\ UNCHANGED <<stores, counters>>
  ELSE IF TrieGet(attractions, attractionId) = <<>> THEN
    /\ Message("addReview", args, Err("Attraction not found"))
    /\ UNCHANGED <<stores, counters>>
  ELSE
    LET attraction  == TrieGet(attractions, attractionId)[1]
        reviewId    == nextReviewId
        review      == [id |-> reviewId, attractionId |-> attractionId,
                        userId |-> userId, rating |-> rating,
                        comment |-> comment, photos |-> photos,
                        createdAt |-> now]
        newReviews  == TriePut(reviews, reviewId, review)
        allReviews  == getReviewsInternal(newReviews, attractionId)
        totalRating == foldlRating(allReviews, 1, 0)
        newRating   == FloatDiv(totalRating, Len(allReviews))
        updatedAttraction == [attraction EXCEPT !.rating = newRating,
                                                !.updatedAt = now]
    IN  /\ nextReviewId' = nextReviewId + 1
        /\ reviews' = newReviews
        /\ attractions' = TriePut(attractions, attractionId, updatedAttraction)
        /\ Message("addReview", args, Ok(reviewId))
        /\ UNCHANGED <<users, payments, nextAttractionId>>

createPaymentUsesPrice(attractionId, amount, currency, paymentMethod) ==
  LET userId == SelfPrincipal
      args   == <<attractionId, amount, currency, paymentMethod>>
  IN
  IF TrieGet(attractions, attractionId) = <<>> THEN
    /\ Message("createPayment", args, Err("Attraction not found"))
    /\ UNCHANGED <<stores, counters>>
  ELSE
    LET attraction == TrieGet(attractions, attractionId)[1]
        paymentId  == generatePaymentId
        qrCodeData == generateQRCodeData(attraction.name, amount, currency)
        payment    == [id |-> paymentId, userId |-> userId,
                       attractionId |-> attractionId, amount |-> attraction.price,
                       currency |-> currency, paymentMethod |-> paymentMethod,
                       status |-> "pending", qrCodeData |-> qrCodeData,
                       createdAt |-> now]
    IN  /\ payments' = TriePut(payments, paymentId, payment)
        /\ Message("createPayment", args, Ok(payment))
        /\ UNCHANGED <<attractions, reviews, users, counters>>

createPaymentNoLookup(attractionId, amount, currency, paymentMethod) ==
  LET userId == SelfPrincipal
      args   == <<attractionId, amount, currency, paymentMethod>>
      name       == IF TrieGet(attractions, attractionId) = <<>> THEN ""
                    ELSE TrieGet(attractions, attractionId)[1].name
      paymentId  == generatePaymentId
      qrCodeData == generateQRCodeData(name, amount, currency)
      payment    == [id |-> paymentId, userId |-> userId,
                     attractionId |-> attractionId, amount |-> amount,
                     currency |-> currency, paymentMethod |-> paymentMethod,
                     status |-> "pending", qrCodeData |-> qrCodeData,
                     createdAt |-> now]
  IN  /\ payments' = TriePut(payments, paymentId, payment)
      /\ Message("createPayment", args, Ok(payment))
      /\ UNCHANGED <<attractions, reviews, users, counters>>

createPayment(attractionId, amount, currency, paymentMethod) ==
  LET userId == SelfPrincipal
      args   == <<attractionId, amount, currency, paymentMethod>>
  IN
  IF TrieGet(attractions, attractionId) = <<>> THEN
    /\ Message("createPayment", args, Err("Attraction not found"))
    /\ UNCHANGED <<stores, counters>>
  ELSE
    LET attraction == TrieGet(attractions, attractionId)[1]
        paymentId  == generatePaymentId
        qrCodeData == generateQRCodeData(attraction.name, amount, currency)
        payment    == [id |-> paymentId, userId |-> userId,
                       attractionId |-> attractionId, amount |-> amount,
                       currency |-> currency, paymentMethod |-> paymentMethod,
                       status |-> "pending", qrCodeData |-> qrCodeData,
                       createdAt |-> now]
    IN  /\ payments' = TriePut(payments, paymentId, payment)
        /\ Message("createPayment", args, Ok(payment))
        /\ UNCHANGED <<attractions, reviews, users, counters>>

updatePaymentStatusUpsert(paymentId, status) ==
  LET args == <<paymentId, status>>
  IN
  IF TrieGet(payments, paymentId) = <<>> THEN
    /\ payments' = TriePut(payments, paymentId,
                     [id |-> paymentId, userId |-> SelfPrincipal,
                      attractionId |-> 0, amount |-> 0, currency |-> <<>>,
                      paymentMethod |-> "", status |-> status,
                      qrCodeData |-> <<>>, createdAt |-> now])
    /\ Message("updatePaymentStatus", args, Err("Payment not found"))
    /\ UNCHANGED <<attractions, reviews, users, counters>>
  ELSE
    LET payment        == TrieGet(payments, paymentId)[1]
        updatedPayment == [payment EXCEPT !.status = status]
    IN  /\ payments' = TriePut(payments, paymentId, updatedPayment)
        /\ Message("updatePaymentStatus", args, Ok(<<>>))
        /\ UNCHANGED <<attractions, reviews, users, counters>>

updatePaymentStatusTouch(paymentId, status) ==
  LET args == <<paymentId, status>>
  IN
  IF TrieGet(payments, paymentId) = <<>> THEN
    /\ Message("updatePaymentStatus", args, Err("Payment not found"))
    /\ UNCHANGED <<stores, counters>>
  ELSE
    LET payment        == TrieGet(payments, paymentId)[1]
        updatedPayment == [payment EXCEPT !.status = status, !.createdAt = now]
    IN  /\ payments' = TriePut(payments, paymentId, updatedPayment)
        /\ Message("updatePaymentStatus", args, Ok(<<>>))
        /\ UNCHANGED <<attractions, reviews, users, counters>>

updatePaymentStatusGuarded(paymentId, status) ==
  LET args == <<paymentId, status>>
  IN
  IF TrieGet(payments, paymentId) = <<>> THEN
    /\ Message("updatePaymentStatus", args, Err("Payment not found"))
    /\ UNCHANGED <<stores, counters>>
  ELSE IF TrieGet(payments, paymentId)[1].status # "pending" THEN
    /\ Message("updatePaymentStatus", args, Err("Payment already settled"))
    /\ UNCHANGED <<stores, counters>>
  ELSE
    LET payment        == TrieGet(payments, paymentId)[1]
        updatedPayment == [payment EXCEPT !.status = status]
    IN  /\ payments' = TriePut(payments, paymentId, updatedPayment)
        /\ Message("updatePaymentStatus", args, Ok(<<>>))
        /\ UNCHANGED <<attractions, reviews, users, counters>>

updatePaymentStatus(paymentId, status) ==
  LET args == <<paymentId, status>>
  IN
  IF TrieGet(payments, paymentId) = <<>> THEN
    /\ Message("updatePaymentStatus", args, Err("Payment not found"))
    /\ UNCHANGED <<stores, counters>>
  ELSE
    LET payment        == TrieGet(payments, paymentId)[1]
        updatedPayment == [payment EXCEPT !.status = status]
    IN  /\ payments' = TriePut(payments, paymentId, updatedPayment)
        /\ Message("updatePaymentStatus", args, Ok(<<>>))
        /\ UNCHANGED <<attractions, reviews, users, counters>>

updateUserProfileKeepsName(username, email, preferredLanguage) ==
  LET userId  == SelfPrincipal
      profile == IF TrieGet(users, userId) = <<>>
                   THEN [id |-> userId, username |-> username, email |-> email,
                         preferredLanguage |-> preferredLanguage,
                         visitedAttractions |-> <<>>,
                         favoriteAttractions |-> <<>>,
                         totalSpent |-> 0, createdAt |-> now]
                   ELSE [TrieGet(users, userId)[1] EXCEPT
                           !.email = email,
                           !.preferredLanguage = preferredLanguage]
  IN  /\ users' = TriePut(users, userId, profile)
      /\ Message("updateUserProfile", <<username, email, preferredLanguage>>, <<>>)
      /\ UNCHANGED <<attractions, reviews, payments, counters>>

updateUserProfileFresh(username, email, preferredLanguage) ==
  LET userId  == SelfPrincipal
      profile == IF TrieGet(users, userId) = <<>>
                   THEN [id |-> userId, username |-> username, email |-> email,
                         preferredLanguage |-> preferredLanguage,
                         visitedAttractions |-> <<>>,
                         favoriteAttractions |-> <<>>,
                         totalSpent |-> 0, createdAt |-> now]
                   ELSE [id |-> userId, username |-> username, email |-> email,
                         preferredLanguage |-> preferredLanguage,
                         visitedAttractions |-> <<>>,
                         favoriteAttractions |-> <<>>,
                         totalSpent |-> 0, createdAt |-> now]
  IN  /\ users' = TriePut(users, userId, profile)
      /\ Message("updateUserProfile", <<username, email, preferredLanguage>>, <<>>)
      /\ UNCHANGED <<attractions, reviews, payments, counters>>

updateUserProfileNoCreate(username, email, preferredLanguage) ==
  LET userId  == SelfPrincipal
      profile == IF TrieGet(users, userId) = <<>>
                   THEN [id |-> userId, username |-> username, email |-> email,
                         preferredLanguage |-> preferredLanguage,
                         visitedAttractions |-> <<>>,
                         favoriteAttractions |-> <<>>,
                         totalSpent |-> 0, createdAt |-> now]
                   ELSE [TrieGet(users, userId)[1] EXCEPT
                           !.username = username, !.email = email,
                           !.preferredLanguage = preferredLanguage]
  IN  /\ users' = IF TrieGet(users, userId) = <<>> THEN users
                 ELSE TriePut(users, userId, profile)
      /\ Message("updateUserProfile", <<username, email, preferredLanguage>>, <<>>)
      /\ UNCHANGED <<attractions, reviews, payments, counters>>

updateUserProfileByCaller(username, email, preferredLanguage) ==
  LET userId  == caller'
      profile == IF TrieGet(users, userId) = <<>>
                   THEN [id |-> userId, username |-> username, email |-> email,
                         preferredLanguage |-> preferredLanguage,
                         visitedAttractions |-> <<>>,
                         favoriteAttractions |-> <<>>,
                         totalSpent |-> 0, createdAt |-> now]
                   ELSE [TrieGet(users, userId)[1] EXCEPT
                           !.username = username, !.email = email,
                           !.preferredLanguage = preferredLanguage]
  IN  /\ users' = TriePut(users, userId, profile)
      /\ Message("updateUserProfile", <<username, email, preferredLanguage>>, <<>>)
      /\ UNCHANGED <<attractions, reviews, payments, counters>>

updateUserProfile(username, email, preferredLanguage) ==
  LET userId  == SelfPrincipal
      profile == IF TrieGet(users, userId) = <<>>
                   THEN [id |-> userId, username |-> username, email |-> email,
                         preferredLanguage |-> preferredLanguage,
                         visitedAttractions |-> <<>>,
                         favoriteAttractions |-> <<>>,
                         totalSpent |-> 0, createdAt |-> now]
                   ELSE [TrieGet(users, userId)[1] EXCEPT
                           !.username = username, !.email = email,
                           !.preferredLanguage = preferredLanguage]
  IN  /\ users' = TriePut(users, userId, profile)
      /\ Message("updateUserProfile", <<username, email, preferredLanguage>>, <<>>)
      /\ UNCHANGED <<attractions, reviews, payments, counters>>

----------------------------------------------------------------------------
(* Home page of the frontend (pages/HomePage.tsx) and its service wrapper.  *)
(* The page's catalog is the array getAttractions returned when it loaded;  *)
(* the result of a handler is the array it puts in filteredAttractions.     *)

RECURSIVE TextTrim(_)
(* String.prototype.trim, for the blank the search texts contain *)
TextTrim(t) ==
  IF t = <<>> THEN t
  ELSE IF Head(t) = " " THEN TextTrim(Tail(t))
  ELSE IF t[Len(t)] = " " THEN TextTrim(SubSeq(t, 1, Len(t) - 1))
  ELSE t

(* ICPService.searchAttractions: filters?.category || null and             *)
(* filters?.language || null are passed on as they are                      *)
icpServiceSearchAttractions(query, filters) ==
  searchResults(query, filters.category, filters.language)

RECURSIVE filterList(_, _, _, _)
(* Array.prototype.filter of the filter effect, from the i-th element on,   *)
(* with its three conditions in turn (no maxPrice, no minRating)            *)
filterList(list, i, searchQuery, filters) ==
  IF i > Len(list) THEN <<>>
  ELSE LET attraction == list[i]
           query      == TextToLowerCase(searchQuery)
           textOk     ==
             searchQuery # <<>> =>
               \/ TextContains(LowerChars[attraction.name], query)
               \/ TextContains(LowerChars[attraction.description], query)
               \/ \E k \in 1 .. Len(attraction.tags) :
                    TextContains(LowerChars[attraction.tags[k]], query)
           categoryOk ==
             (filters.category # <<>> /\ filters.category # <<"all">>) =>
               attraction.category = filters.category[1]
           languageOk ==
             filters.language # <<>> =>
               \E k \in 1 .. Len(attraction.languages) :
                  attraction.languages[k] = filters.language[1]
       IN  (IF textOk /\ categoryOk /\ languageOk THEN <<attraction>> ELSE <<>>)
             \o filterList(list, i + 1, searchQuery, filters)

(* the array the search-and-filter effect computes from the catalog *)
clientFilter(searchQuery, filters) ==
  filterList(attractionScan(TrieIter(DOMAIN attractions), 1), 1,
             searchQuery, filters)

(* the search-and-filter effect, run for a search text and a selection *)
filterEffect(searchQuery, filters) ==
  /\ Message("filterEffect", <<searchQuery, filters>>,
             clientFilter(searchQuery, filters))
  /\ UNCHANGED <<stores, counters>>

(* the search button: a blank text shows the catalog, any other text asks   *)
(* the backend                                                              *)
handleSearch(searchQuery, filters) ==
  /\ Message("handleSearch", <<searchQuery, filters>>,
             IF TextTrim(searchQuery) = <<>>
               THEN attractionScan(TrieIter(DOMAIN attractions), 1)
               ELSE icpServiceSearchAttractions(searchQuery, filters))
  /\ UNCHANGED <<stores, counters>>

----------------------------------------------------------------------------
(* PaymentModal (components/InteractiveMap.tsx). The component stays        *)
(* mounted while it is closed, so its state and its timers live on.         *)

(* the sequence s without its i-th element *)
RemoveAt(s, i) == SubSeq(s, 1, i - 1) \o SubSeq(s, i + 1, Len(s))

(* the page opens the modal for the selected attraction *)
openModal ==
  /\ ~modal.isOpen
  /\ modal' = [modal EXCEPT !.isOpen = TRUE, !.event = "open"]
  /\ UNCHANGED backend

(* onClose, followed by the effect on isOpen that resets the state *)
onClose ==
  /\ modal.isOpen
  /\ modal' = [modal EXCEPT !.isOpen = FALSE,
                            !.paymentTransaction = <<>>,
                            !.paymentStatus = "pending",
                            !.isProcessing = FALSE,
                            !.countdown = CountdownStart,
                            !.event = "close"]
  /\ UNCHANGED backend

(* the one-second timer of the countdown effect *)
countdownTick ==
  /\ modal.paymentStatus = "pending"
  /\ modal.countdown > 0
  /\ modal' = [modal EXCEPT !.countdown = @ - 1, !.event = "countdown"]
  /\ UNCHANGED backend

(* the countdown effect at 0 *)
countdownExpired ==
  /\ modal.paymentStatus = "pending"
  /\ modal.countdown = 0
  /\ modal' = [modal EXCEPT !.paymentStatus = "failed", !.event = "expired"]
  /\ UNCHANGED backend

(* the Proceed to Payment button is on screen and enabled *)
canPay(a) ==
  /\ modal.isOpen
  /\ modal.paymentStatus = "pending"
  /\ modal.paymentTransaction = <<>>
  /\ ~modal.isProcessing
  /\ a \in DOMAIN attractions
  /\ attractions[a].price # 0

(* handlePayment: the transaction is created and monitorPayment schedules   *)
(* its timer, or the backend's error is caught                              *)
handlePayment(a) ==
  /\ canPay(a)
  /\ createPayment(a, attractions[a].price, USD, SelectedSymbol)
  /\ modal' =
       IF result'.ret.tag = "ok"
         THEN [modal EXCEPT
                 !.paymentTransaction = <<result'.ret.val.id>>,
                 !.timers = Append(@, result'.ret.val.id),
                 !.isProcessing = FALSE,
                 !.event = "handlePayment"]
         ELSE [modal EXCEPT !.paymentStatus = "failed",
                            !.isProcessing = FALSE,
                            !.event = "handlePayment"]

(* handlePayment when the call does not reach the backend: the catch branch *)
handlePaymentThrows(a) ==
  /\ canPay(a)
  /\ modal' = [modal EXCEPT !.paymentStatus = "failed",
                            !.isProcessing = FALSE,
                            !.event = "handlePayment"]
  /\ UNCHANGED backend

(* the callback of the i-th timer monitorPayment has scheduled *)
monitorPayment(i) ==
  /\ i \in 1 .. Len(modal.timers)
  /\ updatePaymentStatus(modal.timers[i], "completed")
  /\ modal' = [modal EXCEPT
                 !.timers = RemoveAt(@, i),
                 !.paymentStatus = IF result'.ret.tag = "ok"
                                     THEN "completed" ELSE "failed",
                 !.event = "monitorPayment"]

(* the Try Again button of the failed screen *)
tryAgain ==
  /\ modal.isOpen
  /\ modal.paymentStatus = "failed"
  /\ modal' = [modal EXCEPT !.paymentStatus = "pending",
                            !.paymentTransaction = <<>>,
                            !.countdown = CountdownStart,
                            !.event = "tryAgain"]
  /\ UNCHANGED backend

----------------------------------------------------------------------------
(* Upgrade of the canister: preupgrade saves nothing, the new image starts  *)
(* from the field initialisers (no field is declared stable), and           *)
(* postupgrade runs initSampleData.                                         *)

upgrade ==
  LET seeded == initSampleData(TrieEmpty, 0)
  IN  /\ attractions' = seeded.attractions
      /\ nextAttractionId' = seeded.nextAttractionId
      /\ reviews' = TrieEmpty
      /\ users' = TrieEmpty
      /\ payments' = TrieEmpty
      /\ nextReviewId' = 0
      /\ Message("upgrade", <<>>, <<>>)

----------------------------------------------------------------------------
(* Specifications *)

(* requests left in the budget of a run *)
Budget(max) == calls < max

(* the message being handled was sent by one of the principals S *)
Sender(S) == caller' \in S

(* no handler of the payment modal runs *)
ModalIdle == UNCHANGED modal

Next ==
  \/ Tick
  \/ Budget(MaxCalls) /\ Sender(Clients) /\ ModalIdle /\ getAttractions
  \/ Budget(MaxCalls) /\ Sender(Clients) /\ ModalIdle /\ \E id \in AttractionIdInputs : getAttraction(id)
  \/ Budget(MaxCalls) /\ Sender(Clients) /\ ModalIdle /\ \E a \in AttractionIdInputs : getReviews(a)
  \/ Budget(MaxCalls) /\ Sender(Clients) /\ ModalIdle /\ getUserProfile
  \/ Budget(MaxCalls) /\ Sender(Clients) /\ ModalIdle /\
       \E a \in AttractionIdInputs, r \in RatingInputs,
          c \in CommentInputs, p \in PhotoInputs : addReview(a, r, c, p)
  \/ Budget(MaxCalls) /\ Sender(Clients) /\ ModalIdle /\
       \E a \in AttractionIdInputs, m \in AmountInputs,
          c \in CurrencyInputs, pm \in MethodInputs : createPayment(a, m, c, pm)
  \/ Budget(MaxCalls) /\ Sender(Clients) /\ ModalIdle /\
       \E id \in (DOMAIN payments) \cup {UnknownPaymentId}, s \in StatusInputs :
          updatePaymentStatus(id, s)
  \/ Budget(MaxCalls) /\ Sender(Clients) /\ ModalIdle /\
       \E u \in UsernameInputs, e \in EmailInputs, l \in LanguageInputs :
          updateUserProfile(u, e, l)

(* the service operations over the whole input sets, at most MaxCalls requests *)
Spec == Init /\ [][Next]_vars

NextUpgrade ==
  \/ Next
  \/ Budget(MaxCalls) /\ Sender({Controller}) /\ ModalIdle /\ upgrade

(* the service operations and canister upgrades *)
SpecUpgrade == Init /\ [][NextUpgrade]_vars

NextDeep ==
  \/ Tick
  \/ Budget(MaxDeepCalls) /\ Sender(Clients) /\ ModalIdle /\ getAttractions
  \/ Budget(MaxDeepCalls) /\ Sender(Clients) /\ ModalIdle /\ \E id \in DeepReadIds : getAttraction(id)
  \/ Budget(MaxDeepCalls) /\ Sender(Clients) /\ ModalIdle /\ \E a \in DeepReadIds : getReviews(a)
  \/ Budget(MaxDeepCalls) /\ Sender(Clients) /\ ModalIdle /\ getUserProfile
  \/ Budget(MaxDeepCalls) /\ Sender(Clients) /\ ModalIdle /\
       \E a \in AttractionIdInputs, r \in DeepRatings,
          c \in CommentInputs, p \in PhotoInputs : addReview(a, r, c, p)
  \/ Budget(MaxDeepCalls) /\ Sender(Clients) /\ ModalIdle /\
       \E a \in AttractionIdInputs, m \in AmountInputs,
          c \in CurrencyInputs, pm \in DeepMethods : createPayment(a, m, c, pm)
  \/ Budget(MaxDeepCalls) /\ Sender(Clients) /\ ModalIdle /\
       \E id \in (DOMAIN payments) \cup {UnknownPaymentId}, s \in DeepStatuses :
          updatePaymentStatus(id, s)
  \/ Budget(MaxDeepCalls) /\ Sender(Clients) /\ ModalIdle /\
       \E u \in UsernameInputs, e \in EmailInputs, l \in LanguageInputs :
          updateUserProfile(u, e, l)

(* longer runs of the service operations, over fewer ratings and read ids *)
SpecDeep == Init /\ [][NextDeep]_vars

NextSearch ==
  \/ Tick
  \/ Budget(MaxSearchCalls) /\ Sender(Clients) /\ ModalIdle /\ getAttractions
  \/ Budget(MaxSearchCalls) /\ Sender(Clients) /\ ModalIdle /\ \E id \in DeepReadIds : getAttraction(id)
  \/ Budget(MaxSearchCalls) /\ Sender(Clients) /\ ModalIdle /\
       \E q \in QueryInputs, cat \in CategoryInputs,
          lang \in LanguageFilterInputs : searchAttractions(q, cat, lang)
  \/ Budget(MaxSearchCalls) /\ Sender(Clients) /\ ModalIdle /\ \E a \in DeepReadIds : getReviews(a)
  \/ Budget(MaxSearchCalls) /\ Sender(Clients) /\ ModalIdle /\ getUserProfile
  \/ Budget(MaxSearchCalls) /\ Sender(Clients) /\ ModalIdle /\
       \E a \in DeepReadIds, r \in SearchRatings,
          c \in CommentInputs, p \in PhotoInputs : addReview(a, r, c, p)
  \/ Budget(MaxSearchCalls) /\ Sender(Clients) /\ ModalIdle /\
       \E a \in DeepReadIds, m \in AmountInputs,
          c \in CurrencyInputs, pm \in DeepMethods : createPayment(a, m, c, pm)
  \/ Budget(MaxSearchCalls) /\ Sender(Clients) /\ ModalIdle /\
       \E id \in (DOMAIN payments) \cup {UnknownPaymentId}, s \in StatusInputs :
          updatePaymentStatus(id, s)
  \/ Budget(MaxSearchCalls) /\ Sender(Clients) /\ ModalIdle /\
       \E u \in UsernameInputs, e \in EmailInputs, l \in LanguageInputs :
          updateUserProfile(u, e, l)

(* the service operations with the search over all its queries and filters *)
SpecSearch == Init /\ [][NextSearch]_vars

NextCallers ==
  \/ Tick
  \/ Budget(MaxCallerCalls) /\ Sender(CallerInputs) /\ ModalIdle /\ getUserProfile
  \/ Budget(MaxCallerCalls) /\ Sender(CallerInputs) /\ ModalIdle /\
       \E a \in DeepReadIds, r \in SearchRatings,
          c \in CommentInputs, p \in PhotoInputs : addReview(a, r, c, p)
  \/ Budget(MaxCallerCalls) /\ Sender(CallerInputs) /\ ModalIdle /\
       \E a \in DeepReadIds, m \in AmountInputs,
          c \in CurrencyInputs, pm \in DeepMethods : createPayment(a, m, c, pm)
  \/ Budget(MaxCallerCalls) /\ Sender(CallerInputs) /\ ModalIdle /\
       \E u \in UsernameInputs, e \in EmailInputs, l \in LanguageInputs :
          updateUserProfile(u, e, l)

(* the four operations that derive an identity, sent by two principals *)
SpecCallers == Init /\ [][NextCallers]_vars

NextHome ==
  \/ Tick
  \/ Budget(MaxHomeCalls) /\ Sender(Clients) /\ ModalIdle /\
       \E q \in SearchTexts, f \in PanelFilters : filterEffect(q, f)
  \/ Budget(MaxHomeCalls) /\ Sender(Clients) /\ ModalIdle /\
       \E q \in SearchTexts, f \in PanelFilters : handleSearch(q, f)

(* the home page's two ways of searching, over the seed catalog *)
SpecHome == Init /\ [][NextHome]_vars

NextModal ==
  \/ Tick
  \/ openModal
  \/ onClose
  \/ countdownTick
  \/ countdownExpired
  \/ tryAgain
  \/ \E a \in PayableAttractions : handlePaymentThrows(a)
  \/ Budget(MaxModalCalls) /\ Sender(Clients) /\
       \E a \in PayableAttractions : handlePayment(a)
  \/ Budget(MaxModalCalls) /\ Sender(Clients) /\
       \E i \in 1 .. Len(modal.timers) : monitorPayment(i)

(* the payment modal and the backend operations it calls *)
SpecModal == Init /\ [][NextModal]_vars

----------------------------------------------------------------------------
(* Properties *)

(* the step is the handling of one message of operation op *)
Step(op) == calls' = calls + 1 /\ result'.op = op

(* the ids of the stored reviews of attraction a *)
ReviewsOf(a) == {r \in DOMAIN reviews : reviews[r].attractionId = a}

RECURSIVE SumRatings(_)
SumRatings(R) ==
  IF R = {} THEN 0
  ELSE LET r == CHOOSE x \in R : TRUE
       IN  reviews[r].rating + SumRatings(R \ {r})

(* the payment is the same but for its status *)
SameButStatus(p, q) == [p EXCEPT !.status = q.status] = q

(* C1: in every state reached by service operations, the rating of an      *)
(* attraction with stored reviews is the sum of their ratings divided by   *)
(* their number, and the rating of an attraction without reviews is its    *)
(* seed rating.                                                            *)
C1_RatingIsMean ==
  \A a \in DOMAIN attractions :
    IF ReviewsOf(a) = {}
      THEN attractions[a].rating = SeedRating(a)
      ELSE /\ attractions[a].rating.den > 0
           /\ attractions[a].rating.num * Cardinality(ReviewsOf(a))
                = SumRatings(ReviewsOf(a)) * attractions[a].rating.den

(* an attraction with reviews of different ratings, another one reviewed too *)
C1_Witness ==
  \E a \in DOMAIN attractions, b \in DOMAIN attractions :
    /\ a # b
    /\ ReviewsOf(b) # {}
    /\ \E r1 \in ReviewsOf(a), r2 \in ReviewsOf(a) :
         reviews[r1].rating # reviews[r2].rating

(* C2: an upgrade leaves the four stores and the two counters as they were *)
C2_UpgradeKeepsState ==
  [][Step("upgrade") => UNCHANGED <<stores, counters>>]_vars

(* C3: an upgrade does not run the seed over existing data: attractions    *)
(* 0-4 keep their rating and updatedAt, nextAttractionId is not advanced   *)
C3_UpgradeNeverReseeds ==
  [][Step("upgrade") =>
       /\ \A a \in (DOMAIN attractions) \cap (0 .. 4) :
            /\ a \in DOMAIN attractions'
            /\ attractions'[a].rating = attractions[a].rating
            /\ attractions'[a].updatedAt = attractions[a].updatedAt
       /\ nextAttractionId' = nextAttractionId]_vars

(* C4: a successful createPayment returns an id that was no key of the     *)
(* payments store, and the store grows by exactly one transaction          *)
C4_FreshPaymentId ==
  [][(Step("createPayment") /\ result'.ret.tag = "ok") =>
       /\ result'.ret.val.id \notin DOMAIN payments
       /\ Cardinality(DOMAIN payments') = Cardinality(DOMAIN payments) + 1
       /\ \A id \in DOMAIN payments :
            id \in DOMAIN payments' /\ payments'[id] = payments[id]]_vars

(* C5: a stored transaction stays stored and keeps every field but its     *)
(* status, and its status changes only in an updatePaymentStatus on its id *)
C5_PaymentFieldsImmutable ==
  [][\A id \in DOMAIN payments :
       /\ id \in DOMAIN payments'
       /\ SameButStatus(payments[id], payments'[id])
       /\ payments'[id].status # payments[id].status =>
            Step("updatePaymentStatus") /\ result'.args[1] = id]_vars

(* C6: addReview with a rating outside 1..5 returns an error and changes   *)
(* no store and no counter                                                 *)
C6_InvalidRatingRejected ==
  [][(Step("addReview") /\ result'.args[2] \notin 1 .. 5) =>
       /\ result'.ret.tag = "err"
       /\ UNCHANGED <<stores, counters>>]_vars

(* a rating of 0 or 6 was refused while a review was already stored *)
C6_Witness ==
  /\ result.op = "addReview"
  /\ result.args[2] \in {0, 6}
  /\ result.ret.tag = "err"
  /\ DOMAIN reviews # {}

(* C7: addReview with a valid rating and createPayment, called with an id  *)
(* that is no key of the attractions store, return the not-found error and *)
(* change no store and no counter                                          *)
C7_UnknownAttractionRejected ==
  [][( /\ \/ Step("addReview") /\ result'.args[2] \in 1 .. 5
          \/ Step("createPayment")
       /\ result'.args[1] \notin DOMAIN attractions ) =>
       /\ result'.ret = Err("Attraction not found")
       /\ UNCHANGED <<stores, counters>>]_vars

(* createPayment on a missing attraction was refused after a review was stored *)
C7_Witness ==
  /\ result.op = "createPayment"
  /\ result.args[1] \notin DOMAIN attractions
  /\ result.ret = Err("Attraction not found")
  /\ nextReviewId > 0

(* C8: a successful addReview with rating r on an attraction without       *)
(* reviews sets the rating of that attraction to exactly r                 *)
C8_FirstReviewSetsRating ==
  [][(Step("addReview") /\ result'.ret.tag = "ok"
        /\ ReviewsOf(result'.args[1]) = {}) =>
       attractions'[result'.args[1]].rating
         = [num |-> result'.args[2], den |-> 1]]_vars

(* the first review of an attraction was stored after a review of another one *)
C8_Witness ==
  /\ result.op = "addReview"
  /\ result.ret.tag = "ok"
  /\ Cardinality(ReviewsOf(result.args[1])) = 1
  /\ \E r \in DOMAIN reviews :
       /\ reviews[r].attractionId # result.args[1]
       /\ reviews[r].rating # result.args[2]
  /\ attractions[result.args[1]].rating = [num |-> result.args[2], den |-> 1]

(* C9: a successful createPayment returns a pending transaction with a     *)
(* non-empty payload and the arguments as its fields, stores that record   *)
(* under the returned id and changes no other store and no counter         *)
C9_CreatePaymentResult ==
  [][(Step("createPayment") /\ result'.ret.tag = "ok") =>
       LET tx == result'.ret.val
       IN  /\ tx.status = "pending"
           /\ Len(tx.qrCodeData) > 0
           /\ tx.attractionId = result'.args[1]
           /\ tx.amount = result'.args[2]
           /\ tx.currency = result'.args[3]
           /\ tx.paymentMethod = result'.args[4]
           /\ tx.id \in DOMAIN payments'
           /\ payments'[tx.id] = tx
           /\ UNCHANGED <<attractions, reviews, users, counters>>]_vars

(* createPayment(2, 300, "EUR", "ICP") succeeded *)
C9_Witness ==
  /\ result.op = "createPayment"
  /\ result.args = <<2, 300, EUR, "ICP">>
  /\ result.ret.tag = "ok"
  /\ result.ret.val.status = "pending"
  /\ payments[result.ret.val.id] = result.ret.val

(* C10: a successful updatePaymentStatus(id, s) sets the status of the     *)
(* transaction id to s and changes nothing else: no other field of it, no  *)
(* other transaction, no other store, no counter                           *)
C10_UpdateStatusFrame ==
  [][(Step("updatePaymentStatus") /\ result'.ret.tag = "ok") =>
       LET id == result'.args[1]
       IN  /\ DOMAIN payments' = DOMAIN payments
           /\ payments'[id] = [payments[id] EXCEPT !.status = result'.args[2]]
           /\ \A other \in (DOMAIN payments) \ {id} :
                payments'[other] = payments[other]
           /\ UNCHANGED <<attractions, reviews, users, counters>>]_vars

(* one of two stored transactions was updated, the other is still pending *)
C10_Witness ==
  /\ result.op = "updatePaymentStatus"
  /\ result.ret.tag = "ok"
  /\ payments[result.args[1]].status = result.args[2]
  /\ \E other \in (DOMAIN payments) \ {result.args[1]} :
       payments[other].status = "pending"

(* C11: updatePaymentStatus with a transaction id that is not a key of      *)
(* payments returns the not-found error, creates no record, and leaves the  *)
(* four stores and both counters unchanged.                                 *)
C11_UnknownPaymentRejected ==
  [][(Step("updatePaymentStatus") /\ result'.args[1] \notin DOMAIN payments) =>
       /\ result'.ret = Err("Payment not found")
       /\ result'.args[1] \notin DOMAIN payments'
       /\ UNCHANGED <<stores, counters>>]_vars

(* an unknown id was refused while another transaction is on file *)
C11_Witness ==
  /\ result.op = "updatePaymentStatus"
  /\ result.args[1] \notin DOMAIN payments
  /\ result.ret = Err("Payment not found")
  /\ payments # TrieEmpty

(* C12: reviews are immutable and never deleted: in every step of the       *)
(* service operations each stored review is still stored under its id with  *)
(* the same attractionId, userId, rating, comment, photos and createdAt, so *)
(* the set of stored review ids never shrinks.                              *)
C12_ReviewsImmutable ==
  [][/\ DOMAIN reviews \subseteq DOMAIN reviews'
     /\ \A id \in DOMAIN reviews : reviews'[id] = reviews[id]]_vars

(* a third review was accepted, at a later time and with another rating,    *)
(* while the first two are on file                                          *)
C12_Witness ==
  /\ result.op = "addReview"
  /\ result.ret = Ok(2)
  /\ DOMAIN reviews = {0, 1, 2}
  /\ reviews[0].createdAt < reviews[2].createdAt
  /\ reviews[0].rating # reviews[2].rating

(* C13: after any number of updateUserProfile calls users holds exactly    *)
(* one profile, keyed by the identity the operation derives and carrying it *)
(* as id; username, email and preferredLanguage are those of the most       *)
(* recent call and createdAt is the time of the first call. No other        *)
(* operation touches the store.                                             *)
C13_OneProfileLastWriteWins ==
  [][IF Step("updateUserProfile")
       THEN /\ DOMAIN users' = {SelfPrincipal}
            /\ users'[SelfPrincipal].id = SelfPrincipal
            /\ users'[SelfPrincipal].username = result'.args[1]
            /\ users'[SelfPrincipal].email = result'.args[2]
            /\ users'[SelfPrincipal].preferredLanguage = result'.args[3]
            /\ users'[SelfPrincipal].createdAt =
                 IF SelfPrincipal \in DOMAIN users
                   THEN users[SelfPrincipal].createdAt
                   ELSE result'.at
       ELSE users' = users]_vars

(* the profile was written again, under another name, after it was created *)
C13_Witness ==
  /\ result.op = "updateUserProfile"
  /\ DOMAIN users = {SelfPrincipal}
  /\ users[SelfPrincipal].createdAt < result.at
  /\ users[SelfPrincipal].username = "ben"

(* C14: updateUserProfile on an existing profile overwrites only username,  *)
(* email and preferredLanguage: id, visitedAttractions, favoriteAttractions,*)
(* totalSpent and createdAt keep their values, and attractions, reviews,    *)
(* payments and both counters are unchanged.                                *)
C14_UpdateProfileFrame ==
  [][(Step("updateUserProfile") /\ SelfPrincipal \in DOMAIN users) =>
       /\ DOMAIN users' = DOMAIN users
       /\ users'[SelfPrincipal] =
            [users[SelfPrincipal] EXCEPT
               !.username = result'.args[1], !.email = result'.args[2],
               !.preferredLanguage = result'.args[3]]
       /\ UNCHANGED <<attractions, reviews, payments, counters>>]_vars

(* an existing profile was updated while a transaction is on file *)
C14_Witness ==
  /\ result.op = "updateUserProfile"
  /\ SelfPrincipal \in DOMAIN users
  /\ users[SelfPrincipal].createdAt < result.at
  /\ payments # TrieEmpty

(* C15: updateUserProfile always succeeds; with no profile on file it       *)
(* creates one with the derived identity as id, the supplied username,      *)
(* email and preferredLanguage, empty visited and favorite sets, totalSpent *)
(* 0 and createdAt the current time, and getUserProfile then returns the    *)
(* stored profile rather than absent.                                       *)
C15_CreateProfile ==
  [][/\ Step("updateUserProfile") =>
          /\ result'.ret = <<>>
          /\ SelfPrincipal \in DOMAIN users'
     /\ (Step("updateUserProfile") /\ SelfPrincipal \notin DOMAIN users) =>
          users' = TriePut(users, SelfPrincipal,
                     [id |-> SelfPrincipal, username |-> result'.args[1],
                      email |-> result'.args[2],
                      preferredLanguage |-> result'.args[3],
                      visitedAttractions |-> <<>>, favoriteAttractions |-> <<>>,
                      totalSpent |-> 0, createdAt |-> now])
     /\ (Step("getUserProfile") /\ SelfPrincipal \in DOMAIN users) =>
          result'.ret = <<users[SelfPrincipal]>>]_vars

(* the profile created by the first call was read back *)
C15_Witness ==
  /\ result.op = "getUserProfile"
  /\ calls = 2
  /\ SelfPrincipal \in DOMAIN users
  /\ result.ret = <<users[SelfPrincipal]>>
  /\ result.ret[1].visitedAttractions = <<>>
  /\ result.ret[1].totalSpent = 0

(* the three criteria of the search, stated on one attraction *)
C16_Criteria(a, query, category, language) ==
  /\ LET q == TextToLowerCase(query)
     IN  \/ TextContains(TextToLowerCase(Chars[a.name]), q)
         \/ TextContains(TextToLowerCase(Chars[a.description]), q)
         \/ \E t \in {a.tags[k] : k \in 1 .. Len(a.tags)} :
              TextContains(TextToLowerCase(Chars[t]), q)
  /\ category = <<>> \/ a.category = category[1]
  /\ language = <<>> \/
       language[1] \in {a.languages[k] : k \in 1 .. Len(a.languages)}

(* C16: searchAttractions(query, category, language) returns exactly the    *)
(* stored attractions that satisfy all three criteria, each once: the       *)
(* lower-cased query occurs in the lower-cased name, description or a tag   *)
(* (the empty query in every attraction), the category, if supplied, is     *)
(* equal, and the language, if supplied, is one of the languages. The empty *)
(* query with category "museum" returns exactly the museums.                *)
C16_SearchReturnsMatches ==
  [][Step("searchAttractions") =>
       LET query    == result'.args[1]
           category == result'.args[2]
           language == result'.args[3]
           ret      == result'.ret
           hits     == {id \in DOMAIN attractions :
                          C16_Criteria(attractions[id], query, category, language)}
       IN  /\ {ret[i] : i \in 1 .. Len(ret)} = {attractions[id] : id \in hits}
           /\ Len(ret) = Cardinality(hits)
           /\ (query = <<>> /\ category = <<>> /\ language = <<>>) =>
                Len(ret) = Cardinality(DOMAIN attractions)
           /\ (query = <<>> /\ category = <<"museum">> /\ language = <<>>) =>
                {ret[i].id : i \in 1 .. Len(ret)} =
                  {id \in DOMAIN attractions :
                     attractions[id].category = "museum"}]_vars

(* the empty query with category "museum" returned the one seed museum *)
C16_Witness ==
  /\ result.op = "searchAttractions"
  /\ result.args = << <<>>, <<"museum">>, <<>> >>
  /\ Len(result.ret) = 1
  /\ result.ret[1].id = 2
  /\ result.ret[1].category = "museum"

(* two queries of the same length whose characters agree up to letter case *)
C17_SameButCase(q1, q2) ==
  /\ Len(q1) = Len(q2)
  /\ \A i \in 1 .. Len(q1) : CharToLower(q1[i]) = CharToLower(q2[i])

(* C17: the text criterion ignores letter case: a query that differs from   *)
(* the one sent only in letter case returns the same attractions under the  *)
(* same filters, and "lake", "Lake" and "LAKE" without filters each return  *)
(* exactly the one attraction whose tags include "lake".                    *)
C17_CaseInsensitive ==
  [][Step("searchAttractions") =>
       LET query    == result'.args[1]
           category == result'.args[2]
           language == result'.args[3]
           ret      == result'.ret
       IN  /\ \A q2 \in QueryInputs :
                C17_SameButCase(query, q2) =>
                  searchResults(q2, category, language) = ret
           /\ (/\ C17_SameButCase(query, <<"l", "a", "k", "e">>)
               /\ category = <<>>
               /\ language = <<>>) =>
                /\ Len(ret) = 1
                /\ {ret[i].id : i \in 1 .. Len(ret)} =
                     {id \in DOMAIN attractions :
                        \E k \in 1 .. Len(attractions[id].tags) :
                           attractions[id].tags[k] = "lake"}]_vars

(* the upper-case query found the lake *)
C17_Witness ==
  /\ result.op = "searchAttractions"
  /\ result.args = << <<"L", "A", "K", "E">>, <<>>, <<>> >>
  /\ Len(result.ret) = 1
  /\ result.ret[1].id = 0

(* C19: getAttractions, getAttraction, searchAttractions, getReviews and   *)
(* getUserProfile never change the state: the four stores and both          *)
(* counters are the same before and after the call.                         *)
C19_ReadsChangeNothing ==
  [][(\E op \in {"getAttractions", "getAttraction", "searchAttractions",
                 "getReviews", "getUserProfile"} : Step(op)) =>
       UNCHANGED <<stores, counters>>]_vars

(* a search ran after a review was stored and returned the re-rated museum *)
C19_Witness ==
  /\ result.op = "searchAttractions"
  /\ reviews # TrieEmpty
  /\ nextReviewId = 1
  /\ \E i \in 1 .. Len(result.ret) :
       /\ result.ret[i].id = 2
       /\ result.ret[i].rating = attractions[2].rating
       /\ result.ret[i].rating # SeedRating(2)

(* C18: on the first start, before any client operation, attractions      *)
(* holds exactly the five attractions 0 .. 4, each under the key equal to   *)
(* its id field, nextAttractionId is 5, nextReviewId is 0, and reviews,     *)
(* users and payments are empty.                                            *)
C18_FirstStartState ==
  calls = 0 =>
    /\ DOMAIN attractions = 0 .. 4
    /\ \A k \in DOMAIN attractions : attractions[k].id = k
    /\ nextAttractionId = 5
    /\ nextReviewId = 0
    /\ reviews = TrieEmpty
    /\ users = TrieEmpty
    /\ payments = TrieEmpty

(* time has passed since the start and no client has called yet *)
C18_Witness ==
  /\ calls = 0
  /\ result.op = "init"
  /\ now > StartTime
  /\ Cardinality(DOMAIN attractions) = 5

(* C20: the payload createPayment returns is determined by the attraction,  *)
(* the amount and the currency: it equals the qrCodeData of every stored    *)
(* transaction with the same attraction, amount and currency, whatever      *)
(* payment method that one was made with and whenever it was made.          *)
C20_PayloadDeterministic ==
  [][(Step("createPayment") /\ result'.ret.tag = "ok") =>
       \A id \in DOMAIN payments :
          (/\ payments[id].attractionId = result'.args[1]
           /\ payments[id].amount = result'.args[2]
           /\ payments[id].currency = result'.args[3]) =>
             payments[id].qrCodeData = result'.ret.val.qrCodeData]_vars

(* a second payment for the same attraction, amount and currency, made      *)
(* later and with another method, carries the payload of the first          *)
C20_Witness ==
  /\ result.op = "createPayment"
  /\ result.ret.tag = "ok"
  /\ \E id \in DOMAIN payments :
       /\ id # result.ret.val.id
       /\ payments[id].attractionId = result.args[1]
       /\ payments[id].amount = result.args[2]
       /\ payments[id].currency = result.args[3]
       /\ payments[id].paymentMethod # result.args[4]
       /\ payments[id].createdAt < result.ret.val.createdAt
       /\ payments[id].qrCodeData = result.ret.val.qrCodeData

(* C21: updatePaymentStatus makes no legality check: for every stored      *)
(* transaction id, whatever its current status and whatever status text is  *)
(* supplied, the call succeeds and the supplied text is the stored status   *)
(* afterwards, so a completed or failed transaction can be put back to      *)
(* pending or to any other text.                                            *)
C21_AnyStatusAccepted ==
  [][(Step("updatePaymentStatus") /\ result'.args[1] \in DOMAIN payments) =>
       /\ result'.ret = Ok(<<>>)
       /\ payments'[result'.args[1]].status = result'.args[2]]_vars

(* after a creation and an earlier status update, a third call put the      *)
(* transaction back to pending                                              *)
C21_Witness ==
  /\ calls = 3
  /\ result.op = "updatePaymentStatus"
  /\ result.ret = Ok(<<>>)
  /\ result.args[2] = "pending"
  /\ Cardinality(DOMAIN payments) = 1
  /\ payments[result.args[1]].status = "pending"
  /\ payments[result.args[1]].createdAt < result.at

(* C22: review ids are assigned in increasing order and are unique: a      *)
(* successful addReview returns the value nextReviewId had before the call  *)
(* and adds exactly one to it, the returned id is above every stored id, no *)
(* stored review is overwritten, and no other step moves the counter.       *)
C22_ReviewIdsMonotone ==
  [][IF Step("addReview") /\ result'.ret.tag = "ok"
       THEN /\ result'.ret.val = nextReviewId
            /\ nextReviewId' = nextReviewId + 1
            /\ \A id \in DOMAIN reviews :
                 /\ id < result'.ret.val
                 /\ reviews'[id] = reviews[id]
            /\ DOMAIN reviews' = DOMAIN reviews \cup {result'.ret.val}
            /\ reviews'[result'.ret.val].id = result'.ret.val
       ELSE nextReviewId' = nextReviewId]_vars

(* the second accepted review got id 1 *)
C22_Witness ==
  /\ result.op = "addReview"
  /\ result.ret = Ok(1)
  /\ nextReviewId = 2
  /\ DOMAIN reviews = {0, 1}
  /\ reviews[1].id = 1

(* C23: an attraction changes only when its rating is recomputed: a        *)
(* successful addReview on attraction A changes only the rating and the     *)
(* updatedAt of A and no other attraction, and every other step (a failed   *)
(* addReview, createPayment, updatePaymentStatus, updateUserProfile, the    *)
(* reads) leaves the attractions store unchanged.                           *)
C23_AttractionFrame ==
  [][IF Step("addReview") /\ result'.ret.tag = "ok"
       THEN LET a == result'.args[1]
            IN  /\ DOMAIN attractions' = DOMAIN attractions
                /\ \A other \in (DOMAIN attractions) \ {a} :
                     attractions'[other] = attractions[other]
                /\ [attractions'[a] EXCEPT
                      !.rating = attractions[a].rating,
                      !.updatedAt = attractions[a].updatedAt] = attractions[a]
       ELSE attractions' = attractions]_vars

(* a review was accepted after the start: attraction 2 has a new rating and *)
(* a later updatedAt, its createdAt and the other attractions are untouched *)
C23_Witness ==
  /\ result.op = "addReview"
  /\ result.ret.tag = "ok"
  /\ result.args[1] = 2
  /\ attractions[2].rating # SeedRating(2)
  /\ attractions[2].createdAt < attractions[2].updatedAt
  /\ attractions[0].updatedAt = attractions[0].createdAt

(* C24: getAttraction(id) returns the stored attraction whose id is id     *)
(* when there is one and the absent value otherwise: never an error, never  *)
(* an attraction with another id.                                           *)
C24_GetAttraction ==
  [][Step("getAttraction") =>
       LET id    == result'.args[1]
           ret   == result'.ret
           found == {k \in DOMAIN attractions : attractions[k].id = id}
       IN  IF found # {}
             THEN /\ Len(ret) = 1
                  /\ ret[1].id = id
                  /\ ret[1] \in {attractions[k] : k \in found}
             ELSE ret = <<>>]_vars

(* attraction 2 was read back after a review changed its rating *)
C24_Witness ==
  /\ result.op = "getAttraction"
  /\ result.args = <<2>>
  /\ Len(result.ret) = 1
  /\ result.ret[1] = attractions[2]
  /\ result.ret[1].rating # SeedRating(2)

(* C25: the identity addReview, createPayment, updateUserProfile and       *)
(* getUserProfile use is the service's own, not the sender's: whichever of  *)
(* two principals sends the message, every review, payment and profile      *)
(* carries the service's principal as userId, users never holds more than   *)
(* one profile, an update by any sender rewrites that one profile, and      *)
(* getUserProfile returns it to any sender.                                 *)
C25_IdentityIsServiceOwn ==
  [][(calls' = calls + 1) =>
       /\ SelfPrincipal \notin CallerInputs
       /\ \A id \in DOMAIN reviews' : reviews'[id].userId = SelfPrincipal
       /\ \A id \in DOMAIN payments' : payments'[id].userId = SelfPrincipal
       /\ DOMAIN users' \subseteq {SelfPrincipal}
       /\ \A id \in DOMAIN users' : users'[id].id = SelfPrincipal
       /\ Step("updateUserProfile") =>
            /\ SelfPrincipal \in DOMAIN users'
            /\ users'[SelfPrincipal].username = result'.args[1]
       /\ Step("getUserProfile") =>
            result'.ret = TrieGet(users, SelfPrincipal)]_vars

(* bob asked for his profile and got one whose id is not his; a review and  *)
(* the profile on file carry the same userId                                *)
C25_Witness ==
  /\ calls = 3
  /\ result.op = "getUserProfile"
  /\ caller = "bob"
  /\ Len(result.ret) = 1
  /\ result.ret[1].id # caller
  /\ \E id \in DOMAIN reviews : reviews[id].userId = result.ret[1].id

(* C26: referential integrity holds in every reachable state: the         *)
(* attractionId of every stored review and of every stored transaction is   *)
(* the id of an attraction in the store, and every record of the four       *)
(* stores is stored under the key equal to its id field.                    *)
C26_ReferentialIntegrity ==
  LET attractionIds == {attractions[k].id : k \in DOMAIN attractions}
  IN  /\ \A k \in DOMAIN attractions : attractions[k].id = k
      /\ \A k \in DOMAIN reviews :
           /\ reviews[k].id = k
           /\ reviews[k].attractionId \in attractionIds
      /\ \A k \in DOMAIN payments :
           /\ payments[k].id = k
           /\ payments[k].attractionId \in attractionIds
      /\ \A k \in DOMAIN users : users[k].id = k

(* a review and a transaction are on file, both for stored attractions *)
C26_Witness ==
  /\ reviews # TrieEmpty
  /\ payments # TrieEmpty
  /\ \E r \in DOMAIN reviews, p \in DOMAIN payments :
       /\ reviews[r].attractionId \in DOMAIN attractions
       /\ payments[p].attractionId \in DOMAIN attractions
       /\ reviews[r].attractionId # payments[p].attractionId

(* C27: the payload depends only on the amount and the currency: the       *)
(* qrCodeData a successful createPayment returns equals that of every       *)
(* stored transaction with the same amount and currency, also when that one *)
(* is for an attraction with another name.                                  *)
C27_PayloadIgnoresName ==
  [][(Step("createPayment") /\ result'.ret.tag = "ok") =>
       \A id \in DOMAIN payments :
          (/\ payments[id].amount = result'.args[2]
           /\ payments[id].currency = result'.args[3]) =>
             payments[id].qrCodeData = result'.ret.val.qrCodeData]_vars

(* two transactions with the same amount and currency, for attractions with *)
(* different names, carry the same payload                                  *)
C27_Witness ==
  /\ result.op = "createPayment"
  /\ result.ret.tag = "ok"
  /\ \E id \in DOMAIN payments :
       /\ payments[id].attractionId # result.args[1]
       /\ attractions[payments[id].attractionId].name #
            attractions[result.args[1]].name
       /\ payments[id].amount = result.args[2]
       /\ payments[id].currency = result.args[3]
       /\ payments[id].qrCodeData = result.ret.val.qrCodeData

(* C28: addReview checks the rating before the attraction: a call with a   *)
(* rating outside 1 .. 5 for an attraction id that is not stored returns    *)
(* "Rating must be between 1 and 5", not the not-found error, and changes   *)
(* no state.                                                                *)
C28_RatingCheckedFirst ==
  [][(/\ Step("addReview")
      /\ result'.args[2] \notin 1 .. 5
      /\ result'.args[1] \notin DOMAIN attractions) =>
       /\ result'.ret = Err("Rating must be between 1 and 5")
       /\ result'.ret # Err("Attraction not found")
       /\ UNCHANGED <<stores, counters>>]_vars

(* rating 6 for the unknown attraction 5 got the rating error *)
C28_Witness ==
  /\ result.op = "addReview"
  /\ result.args[1] = 5
  /\ result.args[1] \notin DOMAIN attractions
  /\ result.args[2] = 6
  /\ result.ret = Err("Rating must be between 1 and 5")

(* the ids of the attractions of an array *)
IdsOf(list) == {list[i].id : i \in 1 .. Len(list)}

(* C29: the server-side search of the home page agrees with its client-side *)
(* filter: for every search text that is sent to the backend and every      *)
(* category (the choice "all" included) and language of the filter panel,   *)
(* handleSearch obtains the attractions the filter effect computes from the *)
(* catalog for the same text and selection.                                 *)
C29_SearchAgreesWithFilter ==
  [][(Step("handleSearch") /\ TextTrim(result'.args[1]) # <<>>) =>
       IdsOf(result'.ret) =
         IdsOf(clientFilter(result'.args[1], result'.args[2]))]_vars

(* C30: in the payment modal a status "failed" stays until Try Again is    *)
(* pressed or the modal is closed, and the callback of a monitorPayment     *)
(* timer that was scheduled for an earlier attempt (its transaction is not  *)
(* the one the modal holds) never changes the displayed status.             *)
C30_StaleTimerChangesNothing ==
  [][/\ (modal.paymentStatus = "failed" /\ modal'.paymentStatus # "failed") =>
          modal'.event \in {"tryAgain", "close"}
     /\ (/\ Step("updatePaymentStatus")
         /\ modal'.event = "monitorPayment"
         /\ modal.paymentTransaction # <<result'.args[1]>>) =>
          modal'.paymentStatus = modal.paymentStatus]_vars

====
